---- MODULE Spec2Model ----
(***************************************************************************)
(* SpringRollContainer: the plugin registry (static PLUGINS), one          *)
(* Container and its lifecycle handlers, as a state machine.               *)
(*                                                                         *)
(* A handler of the source is an operator on a record s that holds the     *)
(* container's fields; a statement that throws sets s.threw and every      *)
(* later statement of the handler is skipped.  s.trace lists, in order,    *)
(* the calls the handler made on plugins, on the Bellhop client and on     *)
(* the iframe.  One action of Next is one whole handler.                   *)
(***************************************************************************)
EXTENDS Integers, Sequences, FiniteSets, TLC

VARIABLES
  PLUGINS,       \* static registry: sequence of plugin constructors
  pushed,        \* the constructors in the order PLUGINS.push received them
  constructed,   \* a Container has been constructed
  main,          \* this.main: "iframe" or "null"
  dom,           \* this.dom
  options,       \* this.options
  client,        \* this.client: a client id, or Null
  handlers,      \* events the current client has handlers for (client.on)
  sent,          \* requests sent over the current client (client.send)
  singlePlay,    \* answer registered by client.respond('singlePlay', ..)
  playOptions,   \* answer registered by client.respond('playOptions', ..)
  loaded,        \* this.loaded
  loading,       \* this.loading
  src,           \* the iframe's src attribute, a sequence of characters
  loadingClass,  \* the iframe carries the class 'loading'
  plugins,       \* this.plugins: the plugin instances, in order
  hookCount,     \* per plugin instance, the open and closed hooks it received
  captions,      \* the captions plugin: DEBUG, SavedData, this._captionsStyles
  nextClient,    \* number of Bellhop clients created so far
  destroyed,     \* ids of the clients on which destroy() was called
  lastOp,        \* the handler that ran last
  lastErr,       \* the support check of the last openPath reported an error
  threw,         \* the last handler raised an exception
  trace,         \* the calls the last handler made, in order
  pre            \* loaded, loading, client, sent, main before the last handler

vars == <<PLUGINS, pushed, constructed, main, dom, options, client, handlers,
          sent, singlePlay, playOptions, loaded, loading, src, loadingClass,
          plugins, hookCount, captions, nextClient, destroyed, lastOp, lastErr,
          threw, trace, pre>>

containerVars == <<constructed, main, dom, options, client, handlers, sent,
                   singlePlay, playOptions, loaded, loading, src, loadingClass,
                   plugins, hookCount, nextClient, destroyed>>

---------------------------------------------------------------------------
\* Bounds of the model.
MaxPlugins == 2
MaxRegistry == 4
MaxClients == 3

\* this.client = null
Null == 0

\* values handed to Container.uses: callables carry a numeric priority
PluginValues ==
  { [kind |-> "class", name |-> "A", priority |-> 1],
    [kind |-> "function", name |-> "B", priority |-> 1],
    [kind |-> "class", name |-> "C", priority |-> 2],
    [kind |-> "object", name |-> "obj", priority |-> 0],
    [kind |-> "string", name |-> "str", priority |-> 0],
    [kind |-> "number", name |-> "num", priority |-> 0],
    [kind |-> "null", name |-> "null", priority |-> 0] }

\* paths handed to openPath, as sequences of characters
Paths == { <<"/", "g">>, <<"/", "g", "?", "a">> }

\* play options: JS values, named
PlayOptionValues == {"null", "emptyObject", "level2"}

\* the second argument of openPath: undefined, a boolean, or an object whose
\* singlePlay and playOptions properties may be undefined
OpenOptions ==
  [kind : {"undefined"}, bool : {FALSE}, singlePlay : {"undefined"},
   playOptions : {"undefined"}]
    \cup [kind : {"boolean"}, bool : BOOLEAN, singlePlay : {"undefined"},
          playOptions : {"undefined"}]
    \cup [kind : {"object"}, bool : {FALSE},
          singlePlay : {"undefined", "true"},
          playOptions : {"undefined", "level2"}]

\* the third argument of openPath, read only when the second is a boolean
PlayOptionArgs(opts) ==
  IF opts.kind = "boolean" THEN {"undefined", "null", "level2"} ELSE {"undefined"}

MessagingEvents == {"loading", "progress", "loaded", "endGame", "localError"}

---------------------------------------------------------------------------
\* Sequences.
Reverse(q) == [i \in 1..Len(q) |-> q[Len(q) + 1 - i]]

IndexOf(q, ch) ==
  IF \E i \in 1..Len(q) : q[i] = ch
    THEN (CHOOSE i \in 1..Len(q) : q[i] = ch /\ \A j \in 1..(i - 1) : q[j] # ch) - 1
    ELSE -1

---------------------------------------------------------------------------
\* The registry.

\* compare with its operands swapped: ascending priority
compare_ascending(a, b) == a.priority - b.priority

\* the comparator of PLUGINS.sort
compare(a, b) == b.priority - a.priority

\* Array.prototype.sort is stable: an element goes after every element the
\* comparator does not place behind it.
InsertSorted(q, e) ==
  LET k == Cardinality({i \in 1..Len(q) : compare(q[i], e) <= 0})
  IN  SubSeq(q, 1, k) \o <<e>> \o SubSeq(q, k + 1, Len(q))

RECURSIVE sort(_)
sort(q) ==
  IF q = <<>> THEN <<>>
  ELSE InsertSorted(sort(SubSeq(q, 1, Len(q) - 1)), q[Len(q)])

\* 'function' === typeof plugin
IsFunction(plugin) == plugin.kind \in {"function", "class"}

\* isConstructor() reads plugin.prototype: a TypeError on null
IsConstructorThrows(plugin) == plugin.kind = "null"

\* isConstructor(): a prototype whose constructor is a class
isConstructor(plugin) == plugin.kind = "class"

---------------------------------------------------------------------------
\* The container, as a record of its fields while a handler runs.
Cur ==
  [main |-> main, dom |-> dom, options |-> options, client |-> client,
   handlers |-> handlers, sent |-> sent, singlePlay |-> singlePlay,
   playOptions |-> playOptions, loaded |-> loaded, loading |-> loading,
   src |-> src, loadingClass |-> loadingClass, plugins |-> plugins,
   nextClient |-> nextClient, destroyed |-> destroyed,
   threw |-> FALSE, trace |-> <<>>]

\* an exception leaves the handler
Raise(s) == [s EXCEPT !.threw = TRUE]

Log(s, kind, name, arg) ==
  [s EXCEPT !.trace = Append(@, [kind |-> kind, name |-> name, arg |-> arg])]

\* this.client.trigger(ev): a TypeError when this.client is null
clientTrigger(s, ev) ==
  IF s.threw THEN s
  ELSE IF s.client = Null THEN Raise(s)
  ELSE Log(s, "trigger", ev, s.client)

\* this.client.send(ev)
clientSend(s, ev) ==
  IF s.threw THEN s
  ELSE IF s.client = Null THEN Raise(s)
  ELSE [Log(s, "send", ev, s.client) EXCEPT !.sent = @ \cup {ev}]

\* this.plugins.forEach(plugin => plugin.<hook>(this)), over `order`
forEachPlugin(s, hook, order) ==
  IF s.threw THEN s
  ELSE [s EXCEPT !.trace =
          @ \o [i \in 1..Len(order) |->
                  [kind |-> "hook", name |-> hook, arg |-> order[i]]]]

\* this.main.setAttribute('src', value): a TypeError when this.main is null
setSrc(s, value) ==
  IF s.threw THEN s
  ELSE IF s.main = "null" THEN Raise(s)
  ELSE [Log(s, "attr", "src", Len(value)) EXCEPT !.src = value]

\* this.main.classList.add / remove ('loading')
setLoadingClass(s, on) ==
  IF s.threw THEN s
  ELSE IF s.main = "null" THEN Raise(s)
  ELSE [s EXCEPT !.loadingClass = on]

\* destroyClient that destroys the client but keeps this.client
destroyClient_keepReference(s) ==
  IF s.threw \/ s.client = Null THEN s
  ELSE [Log(s, "destroy", "client", s.client) EXCEPT
          !.destroyed = @ \cup {s.client}]

destroyClient(s) ==
  IF s.threw \/ s.client = Null THEN s
  ELSE [Log(s, "destroy", "client", s.client) EXCEPT
          !.destroyed = @ \cup {s.client},
          !.client = Null,
          !.handlers = {},
          !.sent = {},
          !.singlePlay = FALSE,
          !.playOptions = "null"]

onLoading(s) == clientTrigger(s, "opening")

onProgress(s) == clientTrigger(s, "progress")

\* onLoadDone without `this.loading = false`
onLoadDone_keepLoading(s) ==
  LET s1 == [s EXCEPT !.loaded = TRUE]
      s2 == setLoadingClass(s1, FALSE)
      s3 == forEachPlugin(s2, "opened", s.plugins)
  IN  clientTrigger(s3, "opened")

onLoadDone(s) ==
  LET s1 == [s EXCEPT !.loading = FALSE, !.loaded = TRUE]
      s2 == setLoadingClass(s1, FALSE)
      s3 == forEachPlugin(s2, "opened", s.plugins)
  IN  clientTrigger(s3, "opened")

\* $event.type of a Bellhop 'localError' event
onLocalError(s) == clientTrigger(s, "localError")

\* reset without its call of destroyClient
reset_keepClient(s) ==
  LET wasLoaded == s.loaded \/ s.loading
      s1 == IF wasLoaded THEN forEachPlugin(s, "closed", Reverse(s.plugins)) ELSE s
      s2 == IF wasLoaded THEN clientTrigger(s1, "closed") ELSE s1
      s4 == IF s2.threw THEN s2 ELSE [s2 EXCEPT !.loaded = FALSE, !.loading = FALSE]
      s5 == setSrc(s4, <<>>)
  IN  setLoadingClass(s5, FALSE)

\* reset without the test of wasLoaded before the closed hooks
reset_alwaysClosed(s) ==
  LET wasLoaded == s.loaded \/ s.loading
      s1 == forEachPlugin(s, "closed", Reverse(s.plugins))
      s2 == IF wasLoaded THEN clientTrigger(s1, "closed") ELSE s1
      s3 == destroyClient(s2)
      s4 == IF s3.threw THEN s3 ELSE [s3 EXCEPT !.loaded = FALSE, !.loading = FALSE]
      s5 == setSrc(s4, <<>>)
  IN  setLoadingClass(s5, FALSE)

\* reset without `this.loaded = false; this.loading = false`
reset_keepFlags(s) ==
  LET wasLoaded == s.loaded \/ s.loading
      s1 == IF wasLoaded THEN forEachPlugin(s, "closed", Reverse(s.plugins)) ELSE s
      s2 == IF wasLoaded THEN clientTrigger(s1, "closed") ELSE s1
      s3 == destroyClient(s2)
      s5 == setSrc(s3, <<>>)
  IN  setLoadingClass(s5, FALSE)

\* reset without `.slice().reverse()`
reset_forwardOrder(s) ==
  LET wasLoaded == s.loaded \/ s.loading
      s1 == IF wasLoaded THEN forEachPlugin(s, "closed", s.plugins) ELSE s
      s2 == IF wasLoaded THEN clientTrigger(s1, "closed") ELSE s1
      s3 == destroyClient(s2)
      s4 == IF s3.threw THEN s3 ELSE [s3 EXCEPT !.loaded = FALSE, !.loading = FALSE]
      s5 == setSrc(s4, <<>>)
  IN  setLoadingClass(s5, FALSE)

reset(s) ==
  LET wasLoaded == s.loaded \/ s.loading
      s1 == IF wasLoaded THEN forEachPlugin(s, "closed", Reverse(s.plugins)) ELSE s
      s2 == IF wasLoaded THEN clientTrigger(s1, "closed") ELSE s1
      s3 == destroyClient(s2)
      s4 == IF s3.threw THEN s3 ELSE [s3 EXCEPT !.loaded = FALSE, !.loading = FALSE]
      s5 == setSrc(s4, <<>>)
  IN  setLoadingClass(s5, FALSE)

onEndGame(s) == reset(s)

_onCloseFailed(s) == reset(s)

\* this.client = new Bellhop(); connect; on(loading, progress, loaded,
\* endGame, localError)
initClient(s) ==
  IF s.threw THEN s
  ELSE LET id == s.nextClient + 1
       IN  [Log(s, "new", "client", id) EXCEPT
              !.nextClient = id,
              !.client = id,
              !.handlers = MessagingEvents,
              !.sent = {},
              !.singlePlay = FALSE,
              !.playOptions = "null"]

\* this.client.respond(name, value)
clientRespond(s, name, value) ==
  IF s.threw THEN s
  ELSE IF s.client = Null THEN Raise(s)
  ELSE IF name = "singlePlay"
    THEN [Log(s, "respond", name, s.client) EXCEPT !.singlePlay = value]
    ELSE [Log(s, "respond", name, s.client) EXCEPT !.playOptions = value]

---------------------------------------------------------------------------
\* The URL of the iframe.

\* JSON.stringify of a play-options value
JSONStringify(v) ==
  CASE v = "emptyObject" -> <<"{", "}">>
    [] v = "level2" -> <<"{", "\"", "l", "e", "v", "e", "l", "\"", ":", "2", "}">>
    [] OTHER -> <<"n", "u", "l", "l">>

\* encodeURIComponent of one character: letters and digits stay, the
\* punctuation of JSON is percent-encoded
EncodeChar(ch) ==
  CASE ch = "{" -> <<"%", "7", "B">>
    [] ch = "}" -> <<"%", "7", "D">>
    [] ch = "\"" -> <<"%", "2", "2">>
    [] ch = ":" -> <<"%", "3", "A">>
    [] OTHER -> <<ch>>

RECURSIVE encodeURIComponent(_)
encodeURIComponent(q) ==
  IF q = <<>> THEN <<>>
  ELSE EncodeChar(Head(q)) \o encodeURIComponent(Tail(q))

\* 'playOptions=' + encodeURIComponent(JSON.stringify(options.playOptions))
playOptionsQueryString(v) ==
  <<"p", "l", "a", "y", "O", "p", "t", "i", "o", "n", "s", "=">>
    \o encodeURIComponent(JSONStringify(v))

\* the path given to setAttribute('src', path)
FinalPath(userPath, playOpts) ==
  IF playOpts # "null"
    THEN IF -1 = IndexOf(userPath, "?")
           THEN userPath \o <<"?">> \o playOptionsQueryString(playOpts)
           ELSE userPath \o <<"&">> \o playOptionsQueryString(playOpts)
    ELSE userPath

---------------------------------------------------------------------------
\* Opening, closing, destroying.

\* Features.basic(): an error message, or nothing
FeaturesBasic == BOOLEAN

\* the defaults of the destructured parameter { singlePlay = false,
\* playOptions = null }
DefaultSinglePlay(o) == o.singlePlay = "true"

DefaultPlayOptions(o) == IF o.playOptions = "undefined" THEN "null" ELSE o.playOptions

\* _internalOpen once the support check has passed
openSession(s1, userPath, o) ==
  LET sp == DefaultSinglePlay(o)
      po == DefaultPlayOptions(o)
      s2 == IF s1.threw THEN s1 ELSE [s1 EXCEPT !.loading = TRUE]
      s3 == initClient(s2)
      s4 == forEachPlugin(s3, "open", s3.plugins)
      s5 == setLoadingClass(s4, TRUE)
      s6 == setSrc(s5, FinalPath(userPath, po))
      s7 == clientRespond(s6, "singlePlay", sp)
      s8 == clientRespond(s7, "playOptions", po)
  IN  clientTrigger(s8, "open")

\* _internalOpen without its call of reset
_internalOpen_noReset(s, userPath, o, err) ==
  IF err THEN clientTrigger(s, "unsupported")
  ELSE openSession(s, userPath, o)

\* _internalOpen without the early return on a failed support check
_internalOpen_noCheck(s, userPath, o, err) ==
  openSession(reset(s), userPath, o)

_internalOpen(s, userPath, o, err) ==
  LET s1 == reset(s)
  IN  IF err THEN clientTrigger(s1, "unsupported")
      ELSE openSession(s1, userPath, o)

\* the optional arguments of openPath: options = {}, playOptions = {}
openPath(s, path, opts, playOpts, err) ==
  LET po == IF playOpts = "undefined" THEN "emptyObject" ELSE playOpts
      o  == IF opts.kind = "boolean"
              THEN [singlePlay |-> "false", playOptions |-> po]
              ELSE [singlePlay |-> opts.singlePlay, playOptions |-> opts.playOptions]
  IN  _internalOpen(s, path, o, err)

\* this.main = null; this.options = null; this.dom = null
release(s) ==
  IF s.threw THEN s
  ELSE [Log(s, "release", "main", 0) EXCEPT
          !.main = "null", !.options = "null", !.dom = "null"]

\* destroy without its call of reset
destroy_noReset(s) ==
  release(forEachPlugin(s, "teardown", Reverse(s.plugins)))

destroy(s) ==
  LET s1 == reset(s)
      s2 == forEachPlugin(s1, "teardown", Reverse(s1.plugins))
  IN  release(s2)

\* close that resets right after sending the request
close_thenReset(s) ==
  IF s.loading \/ s.loaded
    THEN reset(clientSend(clientTrigger(forEachPlugin(s, "close", s.plugins),
                                        "close"), "close"))
    ELSE reset(s)

\* close without the test of loading / loaded
close_noGuard(s) ==
  clientSend(clientTrigger(forEachPlugin(s, "close", s.plugins), "close"), "close")

close(s) ==
  IF s.loading \/ s.loaded
    THEN clientSend(clientTrigger(forEachPlugin(s, "close", s.plugins), "close"),
                    "close")
    ELSE reset(s)

---------------------------------------------------------------------------
\* The static registry operations, on [list, count, threw].

uses(reg, plugin) ==
  IF ~IsFunction(plugin) /\ IsConstructorThrows(plugin)
    THEN [reg EXCEPT !.threw = TRUE]
  ELSE IF ~IsFunction(plugin) /\ ~isConstructor(plugin)
    THEN reg
  ELSE [reg EXCEPT
          !.pushed = Append(@, plugin),
          !.list = sort(Append(@, plugin))]

clearPlugins(reg) == [reg EXCEPT !.list = <<>>, !.pushed = <<>>]

\* PLUGINS.map(plugin => new plugin(this))
instantiate(list) == [i \in 1..Len(list) |-> [pos |-> i, name |-> list[i].name]]

---------------------------------------------------------------------------
\* The captions plugin (container/plugins/CaptionsPlugin.js).

StyleFields == {"size", "background", "color", "edge", "font", "align"}

DEFAULT_CAPTIONS_STYLES ==
  [size |-> "md", background |-> "black-semi", color |-> "white",
   edge |-> "none", font |-> "arial", align |-> "top"]

\* values a page hands in for a field; "wingdings" is no font the plugin knows
StyleValues(f) ==
  CASE f = "size" -> {"md", "lg"}
    [] f = "background" -> {"black-semi", "none"}
    [] f = "color" -> {"white", "red"}
    [] f = "edge" -> {"none"}
    [] f = "font" -> {"arial", "comic-sans", "wingdings"}
    [] f = "align" -> {"top", "bottom"}

\* an object without properties
NoStyles == [f \in {} |-> ""]

\* JS values handed to setCaptionsStyles or held by SavedData
NullValue == [kind |-> "null", styles |-> NoStyles]
UndefinedValue == [kind |-> "undefined", styles |-> NoStyles]
ObjectValue(st) == [kind |-> "object", styles |-> st]

\* objects a page hands to setCaptionsStyles: no field, one field, and some
\* with several fields
StyleObjects ==
  {NoStyles}
    \cup UNION {[{f} -> StyleValues(f)] : f \in StyleFields}
    \cup {[font |-> "comic-sans", align |-> "bottom"],
          [size |-> "lg", font |-> "wingdings"],
          [size |-> "lg", background |-> "none", color |-> "red",
           edge |-> "none", font |-> "comic-sans", align |-> "bottom"]}

\* what SavedData holds when the page loads: nothing, or styles saved before
SavedAtLoad ==
  {NullValue, ObjectValue([DEFAULT_CAPTIONS_STYLES EXCEPT !.size = "lg"])}

\* the values the regular expressions of the DEBUG validation accept
Colors ==
  {"black", "white", "red", "yellow", "pink", "blue", "black-semi",
   "white-semi", "red-semi", "yellow-semi", "pink-semi", "blue-semi"}

colorReg(v) == v \in Colors
\* /^none|(...)$/: the alternation is not anchored on both sides, which makes
\* no difference for the values of StyleValues
backgroundReg(v) == v \in {"none"} \cup Colors
sizeReg(v) == v \in {"xs", "sm", "md", "lg", "xl"}
edgeReg(v) == v \in {"raise", "depress", "uniform", "drop", "none"}
fontReg(v) ==
  v \in {"georgia", "palatino", "times", "arial", "arial-black", "comic-sans",
         "impact", "lucida", "tahoma", "trebuchet", "verdana", "courier",
         "console"}
alignReg(v) == v \in {"top", "bottom"}

\* the DEBUG validation lets these styles through
Validates(st) ==
  /\ "color" \in DOMAIN st /\ colorReg(st.color)
  /\ "background" \in DOMAIN st /\ backgroundReg(st.background)
  /\ "size" \in DOMAIN st /\ sizeReg(st.size)
  /\ "edge" \in DOMAIN st /\ edgeReg(st.edge)
  /\ "font" \in DOMAIN st /\ fontReg(st.font)
  /\ "align" \in DOMAIN st /\ alignReg(st.align)

\* Object.merge(target, source): every property of source set on target
merge(target, source) ==
  [f \in DOMAIN target \cup DOMAIN source |->
     IF f \in DOMAIN source THEN source[f] ELSE target[f]]

\* the part of setCaptionsStyles after the argument was taken in: validate,
\* then SavedData.write and client.send
validateAndSave(c) ==
  IF c.DEBUG /\ ~Validates(c.styles)
    THEN [c EXCEPT !.threw = TRUE]
    ELSE [c EXCEPT
            !.saved = ObjectValue(c.styles),
            !.sends = IF c.client # Null THEN @ + 1 ELSE @]

\* setCaptionsStyles(styles) with an object, null or nothing
setCaptionsStyles(c, styles) ==
  IF styles.kind \in {"object", "null"}
    THEN validateAndSave([c EXCEPT !.styles = merge(@, styles.styles)])
    ELSE validateAndSave(c)

\* setCaptionsStyles(prop, value) with the name of a property
setCaptionsStyle(c, prop, value) ==
  validateAndSave([c EXCEPT !.styles = merge(@, [f \in {prop} |-> value])])

\* getCaptionsStyles(prop): one property, or the whole object without prop
getCaptionsStyles(c, prop) ==
  IF prop = "" THEN c.styles ELSE c.styles[prop]

\* clearCaptionsStyles without the reset of this._captionsStyles
clearCaptionsStyles_keep(c) == setCaptionsStyles(c, UndefinedValue)

clearCaptionsStyles(c) ==
  setCaptionsStyles(
    [c EXCEPT !.styles = merge(NoStyles, DEFAULT_CAPTIONS_STYLES)],
    UndefinedValue)

\* plugin.opened: this.setCaptionsStyles(SavedData.read(CAPTIONS_STYLES))
captionsOpened(c) == setCaptionsStyles(c, c.saved)

---------------------------------------------------------------------------
\* The state machine.

Init ==
  /\ PLUGINS = <<>>
  /\ pushed = <<>>
  /\ constructed = FALSE
  /\ main = "null"
  /\ dom = "null"
  /\ options = "null"
  /\ client = Null
  /\ handlers = {}
  /\ sent = {}
  /\ singlePlay = FALSE
  /\ playOptions = "null"
  /\ loaded = FALSE
  /\ loading = FALSE
  /\ src = <<>>
  /\ loadingClass = FALSE
  /\ plugins = <<>>
  /\ hookCount = [open |-> <<>>, closed |-> <<>>]
  /\ captions = [setup |-> FALSE, DEBUG |-> FALSE, saved |-> NullValue,
                 styles |-> NoStyles]
  /\ nextClient = 0
  /\ destroyed = {}
  /\ lastOp = "none"
  /\ lastErr = FALSE
  /\ threw = FALSE
  /\ trace = <<>>
  /\ pre = [loaded |-> FALSE, loading |-> FALSE, client |-> Null, sent |-> {},
            main |-> "null"]

Snapshot ==
  [loaded |-> loaded, loading |-> loading, client |-> client, sent |-> sent,
   main |-> main]

\* the number of calls of `hook` on `plugin` that q records
Count(q, hook, plugin) ==
  Cardinality({i \in 1..Len(q) :
                 /\ q[i].kind = "hook"
                 /\ q[i].name = hook
                 /\ q[i].arg = plugin})

\* the container's fields after a handler that ended in r
Commit(r) ==
  /\ hookCount' =
       [h \in {"open", "closed"} |->
          [i \in 1..Len(plugins) |-> hookCount[h][i] + Count(r.trace, h, plugins[i])]]
  /\ main' = r.main
  /\ dom' = r.dom
  /\ options' = r.options
  /\ client' = r.client
  /\ handlers' = r.handlers
  /\ sent' = r.sent
  /\ singlePlay' = r.singlePlay
  /\ playOptions' = r.playOptions
  /\ loaded' = r.loaded
  /\ loading' = r.loading
  /\ src' = r.src
  /\ loadingClass' = r.loadingClass
  /\ plugins' = r.plugins
  /\ nextClient' = r.nextClient
  /\ destroyed' = r.destroyed
  /\ threw' = r.threw
  /\ trace' = r.trace
  /\ pre' = Snapshot
  /\ UNCHANGED <<PLUGINS, pushed, constructed, captions>>

\* the registry after an operation, this.plugins being PLUGINS itself
\* instead of the array PLUGINS.map returned
CommitRegistry_aliased(r, op) ==
  /\ PLUGINS' = r.list
  /\ pushed' = r.pushed
  /\ threw' = r.threw
  /\ lastOp' = op
  /\ lastErr' = FALSE
  /\ trace' = <<>>
  /\ pre' = Snapshot
  /\ plugins' = IF constructed THEN instantiate(r.list) ELSE plugins
  /\ hookCount' = IF constructed
                    THEN [h \in {"open", "closed"} |-> [i \in 1..Len(r.list) |-> 0]]
                    ELSE hookCount
  /\ UNCHANGED <<constructed, main, dom, options, client, handlers, sent,
                 singlePlay, playOptions, loaded, loading, src, loadingClass,
                 nextClient, destroyed, captions>>

\* the registry after an operation that ended in r, the container untouched
CommitRegistry(r, op) ==
  /\ PLUGINS' = r.list
  /\ pushed' = r.pushed
  /\ threw' = r.threw
  /\ lastOp' = op
  /\ lastErr' = FALSE
  /\ trace' = <<>>
  /\ pre' = Snapshot
  /\ UNCHANGED <<containerVars, captions>>

Registry == [list |-> PLUGINS, pushed |-> pushed, threw |-> FALSE]

\* Container.uses(plugin), before the page constructs its container
Uses(plugin) ==
  /\ ~constructed
  /\ Len(uses(Registry, plugin).list) <= MaxPlugins
  /\ CommitRegistry(uses(Registry, plugin), "uses")

\* Container.clearPlugins(), before the page constructs its container
ClearPlugins ==
  /\ ~constructed
  /\ PLUGINS # <<>>
  /\ CommitRegistry(clearPlugins(Registry), "clearPlugins")

\* Container.uses(plugin), the registry alone
Register(plugin) ==
  /\ Len(uses(Registry, plugin).list) <= MaxRegistry
  /\ CommitRegistry(uses(Registry, plugin), "uses")

\* Container.clearPlugins(), the registry alone
ClearRegistry == CommitRegistry(clearPlugins(Registry), "clearPlugins")

\* new Container(iframeSelector, options), the selector matching an iframe
Construct ==
  /\ ~constructed
  /\ constructed' = TRUE
  /\ main' = "iframe"
  /\ client' = nextClient + 1
  /\ nextClient' = nextClient + 1
  /\ dom' = "iframe"
  /\ loaded' = FALSE
  /\ loading' = FALSE
  /\ options' = "options"
  /\ plugins' = instantiate(PLUGINS)
  /\ hookCount' = [h \in {"open", "closed"} |-> [i \in 1..Len(PLUGINS) |-> 0]]
  /\ lastOp' = "constructor"
  /\ lastErr' = FALSE
  /\ threw' = FALSE
  /\ trace' = <<[kind |-> "new", name |-> "client", arg |-> nextClient + 1]>>
  /\ pre' = Snapshot
  /\ UNCHANGED <<PLUGINS, pushed, handlers, sent, singlePlay, playOptions,
                 src, loadingClass, destroyed, captions>>

\* new Container(iframeSelector), the selector matching nothing: throws
ConstructNoIframe ==
  /\ ~constructed
  /\ lastOp = "none"
  /\ lastOp' = "constructor"
  /\ lastErr' = FALSE
  /\ threw' = TRUE
  /\ trace' = <<>>
  /\ pre' = Snapshot
  /\ UNCHANGED <<PLUGINS, pushed, captions>>
  /\ UNCHANGED containerVars

\* container.openPath(path, options, playOptions)
OpenPath(path, opts, playOpts, err) ==
  /\ constructed
  /\ err \/ nextClient < MaxClients
  /\ lastOp' = "openPath"
  /\ lastErr' = err
  /\ Commit(openPath(Cur, path, opts, playOpts, err))

\* container.close()
Close ==
  /\ constructed
  /\ lastOp' = "close"
  /\ lastErr' = FALSE
  /\ Commit(close(Cur))

\* container.destroy()
Destroy ==
  /\ constructed
  /\ lastOp' = "destroy"
  /\ lastErr' = FALSE
  /\ Commit(destroy(Cur))

\* a Bellhop event from the application reaches the handler bound to it
Deliver(ev) ==
  /\ constructed
  /\ ev \in handlers
  /\ lastOp' = ev
  /\ lastErr' = FALSE
  /\ Commit(CASE ev = "loading" -> onLoading(Cur)
              [] ev = "progress" -> onProgress(Cur)
              [] ev = "loaded" -> onLoadDone(Cur)
              [] ev = "endGame" -> onEndGame(Cur)
              [] ev = "localError" -> onLocalError(Cur))

Next ==
  \/ \E plugin \in PluginValues : Uses(plugin)
  \/ ClearPlugins
  \/ Construct
  \/ ConstructNoIframe
  \/ \E path \in Paths, opts \in OpenOptions, err \in FeaturesBasic :
        \E playOpts \in PlayOptionArgs(opts) : OpenPath(path, opts, playOpts, err)
  \/ Close
  \/ Destroy
  \/ \E ev \in MessagingEvents : Deliver(ev)

Spec == Init /\ [][Next]_vars

\* the registry alone, up to MaxRegistry constructors
RegistryNext ==
  \/ \E plugin \in PluginValues : Register(plugin)
  \/ ClearRegistry

SpecRegistry == Init /\ [][RegistryNext]_vars

\* Container.uses(plugin) while a container exists
UsesLate(plugin) ==
  /\ constructed
  /\ Len(uses(Registry, plugin).list) <= MaxPlugins
  /\ CommitRegistry(uses(Registry, plugin), "uses")

\* Container.clearPlugins() while a container exists
ClearPluginsLate ==
  /\ constructed
  /\ PLUGINS # <<>>
  /\ CommitRegistry(clearPlugins(Registry), "clearPlugins")

\* container.openPath('/g')
OpenPathDefault ==
  \E path \in {<<"/", "g">>} :
    OpenPath(path, [kind |-> "undefined", bool |-> FALSE, singlePlay |-> "undefined",
                    playOptions |-> "undefined"], "undefined", FALSE)

\* the page keeps registering and clearing plugins after it has constructed
\* its container
LateNext ==
  \/ \E plugin \in PluginValues : Uses(plugin)
  \/ ClearPlugins
  \/ Construct
  \/ \E plugin \in PluginValues : UsesLate(plugin)
  \/ ClearPluginsLate
  \/ OpenPathDefault
  \/ Close
  \/ Destroy
  \/ \E ev \in {"loaded", "endGame"} : Deliver(ev)

SpecLate == Init /\ [][LateNext]_vars

\* the plugin as a captions method finds it
CurCaptions ==
  [DEBUG |-> captions.DEBUG, saved |-> captions.saved, styles |-> captions.styles,
   client |-> client, sends |-> 0, threw |-> FALSE]

\* the plugin after a captions method that ended in c
CommitCaptions(c, op) ==
  /\ lastOp' = op
  /\ lastErr' = FALSE
  /\ captions' = [captions EXCEPT !.saved = c.saved, !.styles = c.styles]
  /\ sent' = IF c.sends > 0 THEN sent \cup {"captionsStyles"} ELSE sent
  /\ trace' = [i \in 1..c.sends |->
                 [kind |-> "send", name |-> "captionsStyles", arg |-> client]]
  /\ threw' = c.threw
  /\ pre' = Snapshot
  /\ UNCHANGED <<PLUGINS, pushed, constructed, main, dom, options, client,
                 handlers, singlePlay, playOptions, loaded, loading, src,
                 loadingClass, plugins, hookCount, nextClient, destroyed>>

\* plugin.setup on page load, the captions button found: the build is a debug
\* build or not, and SavedData holds `saved`
CaptionsSetup(debug, saved) ==
  /\ ~captions.setup
  /\ captions' = [setup |-> TRUE, DEBUG |-> debug, saved |-> saved,
                  styles |-> merge(merge(NoStyles, DEFAULT_CAPTIONS_STYLES),
                                   saved.styles)]
  /\ threw' = FALSE
  /\ trace' = <<>>
  /\ lastOp' = "setup"
  /\ lastErr' = FALSE
  /\ pre' = Snapshot
  /\ UNCHANGED <<PLUGINS, pushed, containerVars>>

\* container.setCaptionsStyles(styles)
SetCaptionsStyles(styles) ==
  /\ captions.setup
  /\ CommitCaptions(setCaptionsStyles(CurCaptions, styles), "setCaptionsStyles")

\* container.setCaptionsStyles(prop, value)
SetCaptionsStyle(prop, value) ==
  /\ captions.setup
  /\ CommitCaptions(setCaptionsStyle(CurCaptions, prop, value), "setCaptionsStyles")

\* container.clearCaptionsStyles()
ClearCaptionsStyles ==
  /\ captions.setup
  /\ CommitCaptions(clearCaptionsStyles(CurCaptions), "clearCaptionsStyles")

\* the opened hook of the captions plugin
CaptionsOpened ==
  /\ captions.setup
  /\ CommitCaptions(captionsOpened(CurCaptions), "captionsOpened")

\* the arguments a page hands to setCaptionsStyles(styles)
StyleArgs == {NullValue, UndefinedValue} \cup {ObjectValue(st) : st \in StyleObjects}

\* the captions plugin on a page; its setup runs with or without a container
\* and its client
CaptionsNext ==
  \/ \E debug \in BOOLEAN, saved \in SavedAtLoad : CaptionsSetup(debug, saved)
  \/ (~captions.setup /\ Construct)
  \/ \E styles \in StyleArgs : SetCaptionsStyles(styles)
  \/ \E prop \in StyleFields : \E value \in StyleValues(prop) :
        SetCaptionsStyle(prop, value)
  \/ ClearCaptionsStyles
  \/ CaptionsOpened

SpecCaptions == Init /\ [][CaptionsNext]_vars

---------------------------------------------------------------------------
\* What the last handler did, read off its trace.

\* the plugins on which the last handler invoked `hook`, in call order
HookCalls(hook) ==
  LET sel(e) == e.kind = "hook" /\ e.name = hook
      q == SelectSeq(trace, sel)
  IN  [i \in 1..Len(q) |-> q[i].arg]

\* positions of the trace where `kind`.`name` was called
Positions(kind, name) ==
  {i \in 1..Len(trace) : trace[i].kind = kind /\ trace[i].name = name}

\* positions of the trace where a method of client c was called
ClientCalls(c) ==
  {i \in 1..Len(trace) :
     /\ trace[i].kind \in {"trigger", "send", "respond"}
     /\ trace[i].arg = c}

\* positions of the trace where client c was created / destroyed
ClientMade(c) ==
  {i \in 1..Len(trace) : trace[i].kind = "new" /\ trace[i].arg = c}

ClientDestroyed(c) ==
  {i \in 1..Len(trace) : trace[i].kind = "destroy" /\ trace[i].arg = c}

Clients == 1..nextClient

\* clients created and not yet destroyed
LiveClients == Clients \ destroyed

WasActive == pre.loaded \/ pre.loading

---------------------------------------------------------------------------
\* C1: after every completed operation (openPath, close, destroy, a delivered
\* messaging event) the flags loaded and loading are not both true.
C1_NotLoadedAndLoading == ~(loaded /\ loading)

\* a `loaded` message has turned a loading container into a loaded one
C1_Witness == lastOp = "loaded" /\ pre.loading /\ loaded /\ ~loading

\* C2: at most one messaging client is live at a time, and it is this.client;
\* an open that passes the support check creates its client only after the
\* previous client was destroyed; no method is called on a client after that
\* client was destroyed.
C2_OneLiveClient ==
  /\ Cardinality(LiveClients) <= 1
  /\ LiveClients = (IF client = Null THEN {} ELSE {client})
  /\ \A c \in Clients :
       /\ \A i \in ClientCalls(c) : \A j \in ClientDestroyed(c) : i < j
       /\ ClientCalls(c) # {} => (c \notin destroyed \/ ClientDestroyed(c) # {})
  /\ (lastOp = "openPath" /\ ~lastErr /\ ~threw) =>
       /\ client # Null /\ client # pre.client
       /\ ClientMade(client) # {}
       /\ pre.client # Null =>
            \A i \in ClientMade(client) :
              \E j \in ClientDestroyed(pre.client) : j < i

\* a second session was opened over a loaded one, on a fresh client
C2_Witness ==
  /\ lastOp = "openPath" /\ ~lastErr /\ pre.loaded
  /\ client # Null /\ pre.client \in destroyed /\ Cardinality(destroyed) >= 2

---------------------------------------------------------------------------
\* the constructors of priority p, in their order in q
OfPriority(q, p) ==
  LET sel(e) == e.priority = p
  IN  SelectSeq(q, sel)

\* C3: after any sequence of registrations and clearPlugins calls the
\* registry is sorted by non-increasing priority, and constructors of equal
\* priority keep the order in which they were registered.
C3_SortedStable ==
  /\ \A i, j \in 1..Len(PLUGINS) :
       i < j => PLUGINS[i].priority >= PLUGINS[j].priority
  /\ \A p \in {e.priority : e \in PluginValues} :
       OfPriority(PLUGINS, p) = OfPriority(pushed, p)

\* a higher priority registered after two distinct constructors that tie
C3_Witness ==
  /\ Len(PLUGINS) >= 3
  /\ PLUGINS # pushed
  /\ \E i, j \in 1..Len(PLUGINS) :
       /\ i < j
       /\ PLUGINS[i].priority = PLUGINS[j].priority
       /\ PLUGINS[i].name # PLUGINS[j].name

\* C4: a fan-out of open, opened or close reaches all plugins in the order of
\* this.plugins; a fan-out of closed or teardown reaches all plugins in
\* exactly the reverse order; every handler that fans a hook out does so.
C4_HookOrder ==
  /\ \A h \in {"open", "opened", "close"} : HookCalls(h) \in {<<>>, plugins}
  /\ \A h \in {"closed", "teardown"} : HookCalls(h) \in {<<>>, Reverse(plugins)}
  /\ (lastOp = "openPath" /\ ~lastErr /\ ~threw) => HookCalls("open") = plugins
  /\ lastOp = "loaded" => HookCalls("opened") = plugins
  /\ (lastOp = "close" /\ WasActive) => HookCalls("close") = plugins
  /\ (lastOp \in {"openPath", "endGame", "destroy"} /\ WasActive) =>
       HookCalls("closed") = Reverse(plugins)
  /\ (lastOp = "destroy" /\ ~threw) => HookCalls("teardown") = Reverse(plugins)

\* destroy of a loaded container with two different plugins: closed, then
\* teardown, both fanned out
C4_Witness ==
  /\ lastOp = "destroy" /\ pre.loaded /\ ~threw
  /\ Len(plugins) = 2 /\ plugins[1] # plugins[2]
  /\ HookCalls("closed") = Reverse(plugins)
  /\ HookCalls("teardown") = Reverse(plugins)

\* C5: openPath on a loaded or loading container resets the previous session
\* first: every plugin's closed hook, the closed event and the destruction of
\* the old client all precede the creation of the new client, every open
\* hook and the open event; the new session runs on another client.
C5_ResetBeforeOpen ==
  (lastOp = "openPath" /\ WasActive) =>
    LET old == Positions("hook", "closed") \cup Positions("trigger", "closed")
                 \cup ClientDestroyed(pre.client)
        new == Positions("hook", "open") \cup Positions("trigger", "open")
                 \cup Positions("new", "client")
    IN  /\ HookCalls("closed") = Reverse(plugins)
        /\ Cardinality(Positions("trigger", "closed")) = 1
        /\ \A i \in Positions("trigger", "closed") : trace[i].arg = pre.client
        /\ Cardinality(ClientDestroyed(pre.client)) = 1
        /\ pre.client \in destroyed
        /\ client # pre.client
        /\ \A i \in old : \A j \in new : i < j

\* a loaded container with plugins was re-opened and is loading again
C5_Witness ==
  /\ lastOp = "openPath" /\ pre.loaded /\ ~lastErr /\ loading
  /\ Len(plugins) = 2
  /\ Positions("trigger", "open") # {}

---------------------------------------------------------------------------
\* the calls close() makes on a loaded or loading container, in order
CloseCalls ==
  [i \in 1..Len(plugins) |-> [kind |-> "hook", name |-> "close", arg |-> plugins[i]]]
    \o <<[kind |-> "trigger", name |-> "close", arg |-> pre.client],
         [kind |-> "send", name |-> "close", arg |-> pre.client]>>

\* C6: an open whose support check fails emits the local `unsupported`
\* event exactly once and completes without failure.
C6_UnsupportedEmittedOnce ==
  (lastOp = "openPath" /\ lastErr) =>
    /\ ~threw
    /\ Cardinality(Positions("trigger", "unsupported")) = 1

\* C7: an open whose support check fails sets nothing up: no client is
\* created, no open hook runs, the iframe source is not set to the path, and
\* loading is false afterwards.
C7_UnsupportedSetsNothingUp ==
  (lastOp = "openPath" /\ lastErr) =>
    /\ Positions("new", "client") = {}
    /\ client = Null
    /\ HookCalls("open") = <<>>
    /\ \A i \in Positions("attr", "src") : trace[i].arg = 0
    /\ src = <<>>
    /\ ~loading /\ ~loaded
    /\ Positions("trigger", "open") = {}

\* the support check failed on an open over a loaded session
C7_Witness == lastOp = "openPath" /\ lastErr /\ pre.loaded /\ Len(plugins) = 2

\* C8: a localError event that follows a close request makes the container
\* run the reset transition: loaded and loading false, no client.
C8_CloseFailureResets ==
  (lastOp = "localError" /\ "close" \in pre.sent) =>
    /\ ~loaded /\ ~loading
    /\ client = Null

\* C9 as stated: once close() has sent its request, loaded, loading and the
\* client stay as they are until endGame, destroy or a re-open.
C9_UnchangedUntilEndGame ==
  [][("close" \in sent /\ lastOp' \notin {"endGame", "destroy", "openPath"}) =>
       (loaded' = loaded /\ loading' = loading /\ client' = client)]_vars

\* C9, amended: close() on a loaded or loading container calls every
\* plugin's close hook in priority order, then emits `close`, then sends
\* `close`, and leaves loaded, loading and the client as they were; from then
\* on the client stays and the container stays loaded or loading, a `loaded`
\* message alone being able to turn loading into loaded, until endGame,
\* destroy or a re-open, and that step runs the reset transition.
C9_CloseWaitsForEndGame ==
  /\ []((lastOp = "close" /\ WasActive) =>
          /\ trace = CloseCalls
          /\ ~threw
          /\ loaded = pre.loaded /\ loading = pre.loading /\ client = pre.client)
  /\ [][("close" \in sent) =>
          IF lastOp' \in {"endGame", "destroy", "openPath"}
            THEN /\ HookCalls("closed")' = Reverse(plugins)
                 /\ Positions("trigger", "closed")' # {}
                 /\ client \in destroyed'
                 /\ lastOp' \in {"endGame", "destroy"} =>
                      (~loaded' /\ ~loading' /\ client' = Null)
            ELSE /\ client' = client
                 /\ loaded' \/ loading'
                 /\ \/ loaded' = loaded /\ loading' = loading
                    \/ lastOp' = "loaded" /\ loading /\ loaded' /\ ~loading']_vars

\* close() has run on a loaded container with two plugins and the request
\* is out
C9_Witness ==
  /\ lastOp = "close" /\ pre.loaded /\ loaded
  /\ "close" \in sent
  /\ Len(plugins) = 2
  /\ trace = CloseCalls

\* C10: close() on a container that is neither loaded nor loading goes
\* straight to reset: nothing is sent, no plugin hook runs, no event is
\* emitted, and the container ends not loaded, not loading, without a client.
C10_CloseWhenIdleResets ==
  (lastOp = "close" /\ ~WasActive) =>
    /\ \A i \in 1..Len(trace) : trace[i].kind \notin {"send", "hook", "trigger"}
    /\ sent = {}
    /\ ~loaded /\ ~loading
    /\ client = Null
    /\ pre.client # Null => ClientDestroyed(pre.client) # {}

\* close() on a container that was never opened: the constructor's client
\* is destroyed
C10_Witness ==
  /\ lastOp = "close" /\ ~WasActive /\ pre.client # Null
  /\ client = Null /\ ~threw

---------------------------------------------------------------------------
\* C11: the `loaded` message sets loading false and loaded true without
\* failure and keeps the client; a second `loaded` message in the same open
\* cycle leaves loaded, loading, the client and what was sent over it as
\* they were after the first.
C11_LoadedIdempotent ==
  lastOp = "loaded" =>
    /\ loaded /\ ~loading /\ ~threw
    /\ client = pre.client /\ client # Null
    /\ sent = pre.sent
    /\ Positions("trigger", "opened") # {}
    /\ pre.loaded =>
         (loaded = pre.loaded /\ loading = pre.loading /\ main = pre.main)

\* a second `loaded` message has reached a container that was loaded already
C11_Witness == lastOp = "loaded" /\ pre.loaded /\ ~pre.loading /\ loaded

\* C12: destroy() on a container that is not destroyed runs the reset
\* transition first (the closed hooks of an active session precede every
\* teardown hook), then calls every plugin's teardown once, in reverse
\* priority order, and only then releases main, options and dom; afterwards
\* there is no live client and loaded and loading are false.
C12_DestroyOrder ==
  (lastOp = "destroy" /\ pre.main # "null") =>
    /\ ~threw
    /\ HookCalls("teardown") = Reverse(plugins)
    /\ WasActive =>
         /\ HookCalls("closed") = Reverse(plugins)
         /\ Cardinality(Positions("trigger", "closed")) = 1
    /\ \A i \in Positions("hook", "closed") \cup Positions("trigger", "closed")
                  \cup Positions("destroy", "client") \cup Positions("attr", "src") :
         \A j \in Positions("hook", "teardown") \cup Positions("release", "main") :
           i < j
    /\ Cardinality(Positions("release", "main")) = 1
    /\ Positions("attr", "src") # {}
    /\ \A i \in Positions("hook", "teardown") :
         \A j \in Positions("release", "main") : i < j
    /\ main = "null" /\ options = "null" /\ dom = "null"
    /\ client = Null /\ LiveClients = {}
    /\ ~loaded /\ ~loading

\* destroy() has run on a loading container with two plugins
C12_Witness ==
  /\ lastOp = "destroy" /\ pre.loading /\ pre.main # "null"
  /\ Len(plugins) = 2
  /\ main = "null"

---------------------------------------------------------------------------
\* the play options a call of openPath provides: the third argument in the
\* boolean form, the playOptions property in the object form
ProvidedPlayOptions(opts, playOpts) ==
  IF opts.kind = "boolean" THEN playOpts ELSE opts.playOptions

\* C13: openPath(path, b, p) with a boolean b answers the `singlePlay` query
\* with b and the `playOptions` query with p.
C13_BooleanFormSinglePlay ==
  [][\A path \in Paths, opts \in OpenOptions :
       \A playOpts \in PlayOptionArgs(opts) \ {"undefined"} :
         (opts.kind = "boolean" /\ OpenPath(path, opts, playOpts, FALSE) /\ ~threw') =>
           (singlePlay' = opts.bool /\ playOptions' = playOpts)]_vars

\* C14: after a successful openPath the iframe source is the path unchanged
\* when no play options were provided, and the path followed by `?` (no
\* query string yet) or `&`, then `playOptions=` and the URL-encoded JSON of
\* the options, when they were.
C14_SrcCarriesPlayOptions ==
  [][\A path \in Paths, opts \in OpenOptions :
       \A playOpts \in PlayOptionArgs(opts) :
         (OpenPath(path, opts, playOpts, FALSE) /\ ~threw') =>
           LET given == ProvidedPlayOptions(opts, playOpts)
           IN  src' = IF given \in {"undefined", "null"} THEN path
                      ELSE IF \E i \in 1..Len(path) : path[i] = "?"
                        THEN path \o <<"&">> \o playOptionsQueryString(given)
                        ELSE path \o <<"?">> \o playOptionsQueryString(given)]_vars

---------------------------------------------------------------------------
\* C15: registering a value that is not callable (a plain object, a string,
\* a number, null) raises no error and leaves the registry unchanged; only
\* callable values are appended.
C15_NonCallableSkipped ==
  [][\A plugin \in PluginValues :
       Register(plugin) =>
         IF IsFunction(plugin)
           THEN Len(PLUGINS') = Len(PLUGINS) + 1 /\ ~threw'
           ELSE PLUGINS' = PLUGINS /\ ~threw']_vars

---------------------------------------------------------------------------
\* C16: after setCaptionsStyles with valid style values, getCaptionsStyles
\* returns those values for the fields that were set and the previous values
\* for the fields that were not, in the object form and in the property form
\* of the call; after clearCaptionsStyles every field has its default (size
\* md, background black-semi, color white, edge none, font arial, align top),
\* whatever was set before.
C16_SetGetClear ==
  [][/\ \A st \in StyleObjects :
          (/\ SetCaptionsStyles(ObjectValue(st))
           /\ Validates(merge(DEFAULT_CAPTIONS_STYLES, st))) =>
            \A f \in StyleFields :
              getCaptionsStyles(captions', f) =
                IF f \in DOMAIN st THEN st[f] ELSE getCaptionsStyles(captions, f)
     /\ \A prop \in StyleFields : \A value \in StyleValues(prop) :
          (/\ SetCaptionsStyle(prop, value)
           /\ Validates([DEFAULT_CAPTIONS_STYLES EXCEPT ![prop] = value])) =>
            \A f \in StyleFields :
              getCaptionsStyles(captions', f) =
                IF f = prop THEN value ELSE getCaptionsStyles(captions, f)
     /\ ClearCaptionsStyles =>
          /\ getCaptionsStyles(captions', "") = DEFAULT_CAPTIONS_STYLES
          /\ getCaptionsStyles(captions', "size") = "md"
          /\ getCaptionsStyles(captions', "background") = "black-semi"
          /\ getCaptionsStyles(captions', "color") = "white"
          /\ getCaptionsStyles(captions', "edge") = "none"
          /\ getCaptionsStyles(captions', "font") = "arial"
          /\ getCaptionsStyles(captions', "align") = "top"]_vars

\* a set in a debug build that kept the values set before it, was saved and
\* was sent to the application
C16_Witness ==
  /\ lastOp = "setCaptionsStyles" /\ ~threw
  /\ getCaptionsStyles(captions, "font") = "comic-sans"
  /\ getCaptionsStyles(captions, "align") = "bottom"
  /\ getCaptionsStyles(captions, "size") = "lg"
  /\ captions.saved = ObjectValue(captions.styles)
  /\ captions.DEBUG
  /\ client # Null
  /\ Positions("send", "captionsStyles") # {}

\* C17: within one session a plugin's hooks come in the order open, opened,
\* close, closed: once close() has called the close hooks, a `loaded`
\* message of the same session does not call the opened hooks again.
C17_NoOpenedAfterClose ==
  (lastOp = "loaded" /\ "close" \in pre.sent) => HookCalls("opened") = <<>>

---------------------------------------------------------------------------
\* C19: for every plugin instance the closed hooks never outnumber the open
\* hooks and never fall behind by more than one; the two counts are equal
\* whenever the container is neither loaded nor loading, and differ while it
\* is; the closed event is emitted by exactly the handlers that call the
\* closed hooks.
C19_OpenClosedPaired ==
  /\ \A i \in 1..Len(plugins) :
       /\ hookCount.closed[i] <= hookCount.open[i]
       /\ hookCount.open[i] - hookCount.closed[i] <= 1
       /\ (~loaded /\ ~loading) => hookCount.closed[i] = hookCount.open[i]
       /\ (loaded \/ loading) => hookCount.open[i] = hookCount.closed[i] + 1
  /\ Cardinality(Positions("trigger", "closed")) = (IF WasActive /\ HookCalls("closed") = Reverse(plugins) /\ lastOp \in {"openPath", "endGame", "destroy"} THEN 1 ELSE 0)
  /\ (~WasActive \/ lastOp \notin {"openPath", "endGame", "destroy"}) =>
       HookCalls("closed") = <<>>

\* two sessions were opened and both were closed
C19_Witness ==
  /\ Len(plugins) = 2
  /\ ~loaded /\ ~loading
  /\ \A i \in 1..Len(plugins) : hookCount.open[i] = 2 /\ hookCount.closed[i] = 2

\* C20: whenever loaded or loading is true the container holds a live
\* client with its handlers bound; close(), the reset transition and the
\* messaging-event handlers of a container that is not destroyed therefore
\* never fail for want of a client.
C20_ActiveHasClient ==
  /\ (loaded \/ loading) =>
       /\ client # Null /\ client \in LiveClients
       /\ handlers = MessagingEvents
       /\ main # "null"
  /\ (lastOp \in {"close", "destroy"} \cup MessagingEvents /\ pre.main # "null") =>
       ~threw
  /\ (lastOp \in {"close"} \cup (MessagingEvents \ {"endGame"}) /\ WasActive) =>
       \E i \in 1..Len(trace) :
         trace[i].kind \in {"trigger", "send"} /\ trace[i].arg = pre.client
  /\ (lastOp \in {"openPath", "endGame", "destroy"} /\ WasActive) =>
       \E i \in Positions("trigger", "closed") : trace[i].arg = pre.client

\* close() found its client on a loading container, and so did the event
\* and the request
C20_Witness ==
  /\ lastOp = "close" /\ pre.loading /\ loading /\ ~threw
  /\ client # Null
  /\ Positions("send", "close") # {}

\* C18: the plugin instance list is made at construction from the registry
\* as it is then; no later operation, Container.uses and
\* Container.clearPlugins included, changes it, and every hook fan-out of the
\* container runs over exactly that list, in its order or its reverse.
C18_PluginsFixedAtConstruction ==
  [][/\ Construct => plugins' = instantiate(PLUGINS)
     /\ constructed => plugins' = plugins
     /\ constructed =>
          \A h \in {"open", "opened", "close", "closed", "teardown"} :
            HookCalls(h)' \in {<<>>, plugins, Reverse(plugins)}]_vars

\* the registry has changed since the container was constructed, and an
\* openPath has driven the open hooks of the container's own plugins
C18_Witness ==
  /\ constructed
  /\ plugins # <<>>
  /\ plugins # instantiate(PLUGINS)
  /\ lastOp = "openPath" /\ ~threw
  /\ HookCalls("open") = plugins

====
